---- MODULE Spec2Model ----
(***************************************************************************)
(* Book ingestion and catalog core of kompanion:                           *)
(*   BookShelf         StoreBook, UpdateBookMetadata, ViewCover, writeCover*)
(*   BookDatabaseRepo  Store, Update, GetById, GetByFileHash,              *)
(*                     List, Search, CountSearch, Count                    *)
(* Every request is served by its own goroutine; a goroutine's position in *)
(* its handler is pc[w], its local variables are loc[w].  Each call to the *)
(* catalog store or to the Storage Port is one atomic step.                *)
(***************************************************************************)
EXTENDS Integers, Sequences, FiniteSets, TLC

\* ------------------------------------------------------------- bounds
MaxCalls == 2     \* requests served in one run
NumHashes == 2    \* distinct content fingerprints of uploaded files
MaxTime == 1      \* values time.Now() can return
MaxRows == 3      \* rows of the catalogs the catalog queries are run on
IntBits == 16     \* width of Go's int (64), scaled down

\* the page size List and Search fall back to, and the largest they accept
DefaultPerPage == 25
MaxPerPage == 100

\* Two goroutines serve requests at the same time: every race of the
\* handlers is a race between two calls.
Workers == {1, 2}
Hashes == 1..NumHashes
Times == 1..MaxTime
IDs == 1..MaxCalls   \* every request generates at most one identifier

VARIABLES
  catalog,   \* rows of table library_book
  blobs,     \* keys written to the Storage Port
  nextID,    \* state of the uuidv7 generator: the next fresh identifier
  started,   \* requests accepted so far
  pc,        \* pc[w]: position of goroutine w in its handler
  loc,       \* loc[w]: local variables of the handler w runs
  ret,       \* ret[w]: what the handler returned (pc[w] = "done")
  io         \* io[w]: backend calls the running handler has issued, in order

vars == <<catalog, blobs, nextID, started, pc, loc, ret, io>>

\* ------------------------------------------------------------- errors
\* An error is its chain of context strings and the sentinel at its root.
NilErr == [ctx |-> <<>>, cause |-> ""]
ErrBookAlreadyExists == [ctx |-> <<>>, cause |-> "ErrBookAlreadyExists"]
ErrNoRows == [ctx |-> <<>>, cause |-> "no rows in result set"]
ErrDuplicateKey == [ctx |-> <<>>, cause |-> "duplicate key value violates unique constraint"]
ErrBackend == [ctx |-> <<>>, cause |-> "backend failure"]
ErrIO == [ctx |-> <<>>, cause |-> "io failure"]

\* errors.New(text)
ErrorsNew(text) == [ctx |-> <<>>, cause |-> text]
\* fmt.Errorf("ctx: %w", err): wraps, errors.Is still sees the root
Errorf(c, err) == [ctx |-> <<c>> \o err.ctx, cause |-> err.cause]
\* fmt.Errorf("ctx: %s", err): formats, the root is only text afterwards
ErrorfS(c, err) == [ctx |-> <<c>> \o err.ctx \o <<err.cause>>, cause |-> "errorString"]
ErrorsIs(err, target) == err.cause = target.cause

\* ------------------------------------------------------------- values
\* A storage key "<date>/<id>.<ext>" or "covers/<id>.jpg", kept by its parts.
EmptyPath == [kind |-> "", date |-> 0, id |-> 0, ext |-> ""]
\* createDate.Format("2006/01/02"): two clock values fall into one day
DateOf(t) == t \div 2
\* a storage path that leaves the identifier out
StoragePath_ByDate(createDate, bookID, format) ==
  [kind |-> "book", date |-> createDate \div 2, id |-> 0, ext |-> format]

\* fmt.Sprintf("%s/%s.%s", createDate.Format("2006/01/02"), bookID, m.Format)
StoragePath(createDate, bookID, format) ==
  [kind |-> "book", date |-> DateOf(createDate), id |-> bookID, ext |-> format]
\* fmt.Sprintf("covers/%s.jpg", bookID)
CoverKey(bookID) == [kind |-> "covers", date |-> 0, id |-> bookID, ext |-> "jpg"]

\* entity.Book{}
EmptyBook ==
  [ID |-> 0, Title |-> "", Author |-> "", Publisher |-> "", Year |-> 0,
   CreatedAt |-> 0, UpdatedAt |-> 0, ISBN |-> "", DocumentID |-> 0,
   FilePath |-> EmptyPath, Format |-> "", CoverPath |-> EmptyPath]

\* What the Metadata Extractor can return for an uploaded file: a file it
\* cannot classify, a book with a cover and an ISBN, a book with neither.
NoCoverBytes == <<>>
Meta(isbn, cover, format) ==
  [Title |-> "T1", Author |-> "A1", Publisher |-> "P1", ISBN |-> isbn,
   Cover |-> cover, Format |-> format]
Metas ==
  {Meta("I1", <<255>>, ""), Meta("I1", <<255>>, "epub"), Meta("", NoCoverBytes, "epub")}
NoMeta == [Title |-> "", Author |-> "", Publisher |-> "", ISBN |-> "",
           Cover |-> NoCoverBytes, Format |-> ""]

\* The patch argument of UpdateBookMetadata (an entity.Book of which only
\* these five fields are read).
NoPatch == [Title |-> "", Author |-> "", Publisher |-> "", Year |-> 0, ISBN |-> ""]
Patches ==
  {NoPatch,
   [NoPatch EXCEPT !.Title = "T2"], [NoPatch EXCEPT !.Author = "A2"],
   [NoPatch EXCEPT !.Publisher = "P2"], [NoPatch EXCEPT !.Year = 1999],
   [NoPatch EXCEPT !.ISBN = "I2"],
   [Title |-> "T2", Author |-> "A2", Publisher |-> "P2", Year |-> 1999, ISBN |-> "I2"]}

\* The arguments of a catalog query, and the clauses of its statement.
NoArgs == [query |-> "", sortBy |-> "", sortOrder |-> "", page |-> 0, perPage |-> 0]
NoClauses == [orderBy |-> "", dir |-> "", limit |-> 0, offset |-> 0]

\* ------------------------------------------------------------- state
IdleLoc ==
  [op |-> "", hash |-> 0, err |-> NilErr, m |-> NoMeta, bookID |-> 0,
   createDate |-> 0, storagepath |-> EmptyPath, coverPath |-> EmptyPath,
   metadata |-> NoPatch, book |-> EmptyBook, updatedBook |-> EmptyBook,
   args |-> NoArgs, sql |-> NoClauses, books |-> <<>>, count |-> 0]
NoRet == [book |-> EmptyBook, file |-> EmptyPath, err |-> NilErr]

Init ==
  /\ catalog = {}
  /\ blobs = {}
  /\ nextID = 1
  /\ started = 0
  /\ pc = [w \in Workers |-> "idle"]
  /\ loc = [w \in Workers |-> IdleLoc]
  /\ ret = [w \in Workers |-> NoRet]
  /\ io = [w \in Workers |-> <<>>]

\* A backend call as the handler's trace records it.
Call(op, key, ok) == [op |-> op, key |-> key, ok |-> ok]

\* The calls the handler w is in has issued so far.
Trace(w) == io[w]

\* return book, file, err
Done(w, book, file, err, calls) ==
  /\ pc' = [pc EXCEPT ![w] = "done"]
  /\ ret' = [ret EXCEPT ![w] = [book |-> book, file |-> file, err |-> err]]
  /\ io' = [io EXCEPT ![w] = Trace(w) \o calls]

\* the handler goes on to its next backend call
Goto(w, label, calls) ==
  /\ pc' = [pc EXCEPT ![w] = label]
  /\ ret' = [ret EXCEPT ![w] = NoRet]
  /\ io' = [io EXCEPT ![w] = Trace(w) \o calls]

\* ------------------------------------------------------------- catalog store
\* A row of library_book as rows.Scan fills an entity.Book from it: the table
\* has no format column, so Format stays the zero value.
Row(book) == [book EXCEPT !.Format = ""]

\* The uniqueness constraints of table library_book: primary key id, unique
\* koreader_partial_md5.
UniqueViolation(book) ==
  \E r \in catalog : r.ID = book.ID \/ r.DocumentID = book.DocumentID

\* bdr.Pool.Exec(ctx, INSERT ...): the engine's answer
PoolExecInsert(book, dbOk) ==
  IF ~dbOk THEN ErrBackend
  ELSE IF UniqueViolation(book) THEN ErrDuplicateKey
  ELSE NilErr

\* Store looking for a message the engine does not send
IsDuplicateKey_OtherMessage(err) == err.cause = "unique_violation"

\* strings.Contains(err.Error(), "duplicate key value violates unique constraint")
IsDuplicateKey(err) == err.cause = ErrDuplicateKey.cause

\* BookDatabaseRepo.Store: the error returned and the table afterwards
Store(book, dbOk) ==
  LET err == PoolExecInsert(book, dbOk) IN
  IF err # NilErr
    THEN [err |-> IF IsDuplicateKey(err)
                    THEN Errorf("BookDatabaseRepo - Store - r.Pool.Exec", ErrBookAlreadyExists)
                    ELSE Errorf("BookDatabaseRepo - Store - r.Pool.Exec", err),
          catalog |-> catalog]
    ELSE [err |-> NilErr, catalog |-> catalog \cup {Row(book)}]

\* BookDatabaseRepo.GetByFileHash
GetByFileHash(fileHash, dbOk) ==
  LET rows == {r \in catalog : r.DocumentID = fileHash} IN
  IF ~dbOk
    THEN [book |-> EmptyBook,
          err |-> Errorf("BookDatabaseRepo - GetByFileHash - r.Pool.QueryRow", ErrBackend)]
  ELSE IF rows = {}
    THEN [book |-> EmptyBook,
          err |-> Errorf("BookDatabaseRepo - GetByFileHash - r.Pool.QueryRow", ErrNoRows)]
  ELSE [book |-> CHOOSE r \in rows : TRUE, err |-> NilErr]

\* BookDatabaseRepo.GetById
GetById(id, dbOk) ==
  LET rows == {r \in catalog : r.ID = id} IN
  IF ~dbOk
    THEN [book |-> EmptyBook,
          err |-> Errorf("BookDatabaseRepo - Get - r.Pool.QueryRow", ErrBackend)]
  ELSE IF rows = {}
    THEN [book |-> EmptyBook,
          err |-> Errorf("BookDatabaseRepo - Get - r.Pool.QueryRow", ErrNoRows)]
  ELSE [book |-> CHOOSE r \in rows : TRUE, err |-> NilErr]

\* UPDATE library_book SET title, author, publisher, year, updated_at, isbn
\* WHERE id = $7: the row as rewritten
UpdatedRow(r, book) ==
  [r EXCEPT !.Title = book.Title, !.Author = book.Author,
            !.Publisher = book.Publisher, !.Year = book.Year,
            !.UpdatedAt = book.UpdatedAt, !.ISBN = book.ISBN]

\* Update never finding that no row was affected
NoRowsAffected_Never(n) == FALSE

\* rows.RowsAffected() == 0
NoRowsAffected(n) == n = 0

\* BookDatabaseRepo.Update: the error returned and the table afterwards
Update(book, dbOk) ==
  LET hit == {r \in catalog : r.ID = book.ID} IN
  IF ~dbOk
    THEN [err |-> Errorf("BookDatabaseRepo - Update - r.Pool.Exec", ErrBackend),
          catalog |-> catalog]
  ELSE IF NoRowsAffected(Cardinality(hit))
    THEN [err |-> ErrorsNew("BookDatabaseRepo - Update - no rows affected"),
          catalog |-> catalog]
  ELSE [err |-> NilErr,
        catalog |-> (catalog \ hit) \cup {UpdatedRow(r, book) : r \in hit}]

\* ------------------------------------------------------------- text
\* The characters of the strings that occur as column values and as queries.
Chars(s) ==
  CASE s = "" -> <<>>
    [] s = "T1" -> <<"T", "1">>
    [] s = "T2" -> <<"T", "2">>
    [] s = "A1" -> <<"A", "1">>
    [] s = "A2" -> <<"A", "2">>
    [] s = "P1" -> <<"P", "1">>
    [] s = "P2" -> <<"P", "2">>
    [] s = "I1" -> <<"I", "1">>
    [] s = "I2" -> <<"I", "2">>
    [] s = "a1" -> <<"a", "1">>
    [] s = "2" -> <<"2">>
    [] s = "_" -> <<"_">>
    [] s = "%" -> <<"%">>

\* Case folding of one character.
Lower(c) ==
  CASE c = "T" -> "t" [] c = "A" -> "a" [] c = "P" -> "p" [] c = "I" -> "i"
    [] OTHER -> c

\* The engine's pattern match (text LIKE pattern): % stands for any run of
\* characters, _ for any one character, every other character for itself.
\* (No string of the model holds the escape character.)
RECURSIVE Like(_, _)
Like(text, pattern) ==
  IF pattern = <<>> THEN text = <<>>
  ELSE IF Head(pattern) = "%"
    THEN Like(text, Tail(pattern)) \/ (text # <<>> /\ Like(Tail(text), pattern))
  ELSE /\ text # <<>>
       /\ Head(pattern) = "_" \/ Head(pattern) = Head(text)
       /\ Like(Tail(text), Tail(pattern))

\* text ILIKE pattern: LIKE without regard to case
ILike(text, pattern) ==
  Like([i \in 1..Len(text) |-> Lower(text[i])],
       [i \in 1..Len(pattern) |-> Lower(pattern[i])])

\* The engine's ordering of text: by character code, a prefix first.
Code(c) ==
  CASE c = "%" -> 37 [] c = "1" -> 49 [] c = "2" -> 50 [] c = "A" -> 65
    [] c = "I" -> 73 [] c = "P" -> 80 [] c = "T" -> 84 [] c = "_" -> 95
    [] c = "a" -> 97
RECURSIVE TextLeq(_, _)
TextLeq(a, b) ==
  IF a = <<>> THEN TRUE
  ELSE IF b = <<>> THEN FALSE
  ELSE IF Code(Head(a)) # Code(Head(b)) THEN Code(Head(a)) < Code(Head(b))
  ELSE TextLeq(Tail(a), Tail(b))

\* ------------------------------------------------------------- catalog queries
\* Go's int is a two's complement integer of IntBits bits: arithmetic wraps.
WrapInt(x) == ((x + 2^(IntBits - 1)) % 2^IntBits) - 2^(IntBits - 1)

\* lines 77-81, 131-135
SortOrders == {"asc", "desc"}
NormSortOrder(sortOrder) == IF sortOrder \in SortOrders THEN sortOrder ELSE "desc"

\* lines 84, 138: the columns rows can be sorted by
SortColumns ==
  {"title", "author", "publisher", "year", "created_at", "updated_at", "isbn"}

\* a sort column that falls back to the title
NormSortBy_TitleDefault(sortBy) == IF sortBy \in SortColumns THEN sortBy ELSE "title"

\* lines 83-87, 137-141
NormSortBy(sortBy) == IF sortBy \in SortColumns THEN sortBy ELSE "created_at"

\* lines 89-91, 143-145
NormPage(page) == IF page <= 0 THEN 1 ELSE page

\* lines 92-94, 146-148
NormPerPage(perPage) ==
  IF perPage <= 0 \/ perPage > MaxPerPage THEN DefaultPerPage ELSE perPage

\* lines 104, 163: (page-1)*perPage
Offset(page, perPage) == WrapInt(WrapInt(page - 1) * perPage)

\* The ORDER BY / LIMIT / OFFSET clauses fmt.Sprintf writes into the statement.
Clauses(sortBy, sortOrder, page, perPage) ==
  [orderBy |-> NormSortBy(sortBy), dir |-> NormSortOrder(sortOrder),
   limit |-> NormPerPage(perPage),
   offset |-> Offset(NormPage(page), NormPerPage(perPage))]

\* ORDER BY column: r1 does not sort after r2
ColumnLeq(column, r1, r2) ==
  CASE column = "title" -> TextLeq(Chars(r1.Title), Chars(r2.Title))
    [] column = "author" -> TextLeq(Chars(r1.Author), Chars(r2.Author))
    [] column = "publisher" -> TextLeq(Chars(r1.Publisher), Chars(r2.Publisher))
    [] column = "isbn" -> TextLeq(Chars(r1.ISBN), Chars(r2.ISBN))
    [] column = "year" -> r1.Year <= r2.Year
    [] column = "created_at" -> r1.CreatedAt <= r2.CreatedAt
    [] column = "updated_at" -> r1.UpdatedAt <= r2.UpdatedAt

\* ORDER BY column dir: every order of the rows the engine may produce (rows
\* that agree on the column come in any order).
OrderBy(rows, column, dir) ==
  {s \in [1..Cardinality(rows) -> rows] :
     /\ \A r \in rows : \E i \in DOMAIN s : s[i] = r
     /\ \A i, j \in DOMAIN s :
          i < j => IF dir = "asc" THEN ColumnLeq(column, s[i], s[j])
                                  ELSE ColumnLeq(column, s[j], s[i])}

\* LIMIT limit OFFSET offset
LimitOffset(s, limit, offset) ==
  [i \in 1..(IF Len(s) - offset < limit
               THEN (IF Len(s) - offset < 0 THEN 0 ELSE Len(s) - offset)
               ELSE limit) |-> s[offset + i]]

\* bdr.Pool.Query(ctx, sql, ...): the results the engine may give for the
\* rows the WHERE clause selects; it rejects a negative OFFSET.
ErrNegativeOffset == [ctx |-> <<>>, cause |-> "OFFSET must not be negative"]
PoolQuery(rows, clauses, dbOk) ==
  IF ~dbOk THEN {[books |-> <<>>, err |-> ErrBackend]}
  ELSE IF clauses.offset < 0 THEN {[books |-> <<>>, err |-> ErrNegativeOffset]}
  ELSE {[books |-> LimitOffset(s, clauses.limit, clauses.offset), err |-> NilErr] :
          s \in OrderBy(rows, clauses.orderBy, clauses.dir)}

\* BookDatabaseRepo.List: the results it may return
List(sortBy, sortOrder, page, perPage, dbOk) ==
  {[books |-> res.books,
    err |-> IF res.err # NilErr
              THEN Errorf("BookDatabaseRepo - List - r.Pool.Query", res.err)
              ELSE NilErr] :
     res \in PoolQuery(catalog, Clauses(sortBy, sortOrder, page, perPage), dbOk)}

\* a pattern that matches only the whole field
SearchPattern_Exact(query) == Chars(query)

\* lines 151, 190: searchPattern := "%" + query + "%"
SearchPattern(query) == <<"%">> \o Chars(query) \o <<"%">>

\* WHERE title ILIKE $1 OR author ILIKE $1 OR publisher ILIKE $1 OR isbn ILIKE $1
Where(r, pattern) ==
  \/ ILike(Chars(r.Title), pattern)
  \/ ILike(Chars(r.Author), pattern)
  \/ ILike(Chars(r.Publisher), pattern)
  \/ ILike(Chars(r.ISBN), pattern)

\* BookDatabaseRepo.Search: the results it may return
Search(query, sortBy, sortOrder, page, perPage, dbOk) ==
  LET searchPattern == SearchPattern(query)
      rows == {r \in catalog : Where(r, searchPattern)}
  IN  {[books |-> res.books,
        err |-> IF res.err # NilErr
                  THEN Errorf("BookDatabaseRepo - Search - r.Pool.Query", res.err)
                  ELSE NilErr] :
         res \in PoolQuery(rows, Clauses(sortBy, sortOrder, page, perPage), dbOk)}

\* BookDatabaseRepo.CountSearch
CountSearch(query, dbOk) ==
  LET searchPattern == SearchPattern(query) IN
  IF ~dbOk
    THEN [count |-> 0,
          err |-> Errorf("BookDatabaseRepo - CountSearch - r.Pool.QueryRow", ErrBackend)]
    ELSE [count |-> Cardinality({r \in catalog : Where(r, searchPattern)}),
          err |-> NilErr]

\* BookDatabaseRepo.Count
Count(dbOk) ==
  IF ~dbOk
    THEN [count |-> 0,
          err |-> Errorf("BookDatabaseRepo - Count - r.Pool.QueryRow", ErrBackend)]
    ELSE [count |-> Cardinality(catalog), err |-> NilErr]

\* ------------------------------------------------------------- requests
Running(w) == pc[w] # "idle"

\* A request is handed to the first free goroutine, while requests are left.
Accept(w) ==
  /\ pc[w] = "idle"
  /\ \A v \in Workers : v < w => Running(v)
  /\ started < MaxCalls
  /\ started' = started + 1

\* ------------------------------------------------------------- StoreBook
\* line 41: the dedup lookup is taken as a hit exactly when it returned no error
DedupHit(err) == err = NilErr

\* StoreBook without the format check
UnknownFormat_Unchecked(m) == FALSE

\* line 49: the extractor could not classify the file
UnknownFormat(m) == m.Format = ""

\* a handler that takes no error for a failure
Failed_Never(err) == FALSE

\* an error value is not nil (lines 46, 88, 154, 183, 204, 211, 238)
Failed(err) == err # NilErr

\* StoreBook ignoring the primary write's error
WriteFailed_Ignored(err) == FALSE

\* StoreBook testing the primary write's error the wrong way round
WriteFailed_Inverted(err) == err = NilErr

\* line 58: the primary blob write failed
WriteFailed(err) == err # NilErr

\* uc.storage.Write(ctx, localPath, key): the error returned
StorageWrite(key, ok) == IF ok THEN NilErr ELSE ErrBackend

\* uc.storage.Read(ctx, key): the error returned
StorageRead(key, ok) == IF ok /\ key \in blobs THEN NilErr ELSE ErrBackend

\* lines 36-43: fingerprint, then the dedup lookup
StoreBook_GetByFileHash(w) ==
  /\ Accept(w)
  /\ \E h \in Hashes, md5Ok \in BOOLEAN, dbOk \in BOOLEAN :
       IF ~md5Ok
         THEN /\ loc' = [loc EXCEPT ![w] =
                  [IdleLoc EXCEPT !.op = "StoreBook", !.err = ErrIO]]
              /\ Done(w, EmptyBook, EmptyPath,
                      Errorf("BookShelf - StoreBook - PartialMD5", ErrIO), <<>>)
         ELSE LET found == GetByFileHash(h, dbOk) IN
                /\ loc' = [loc EXCEPT ![w] =
                     [IdleLoc EXCEPT !.op = "StoreBook", !.hash = h,
                                     !.err = found.err]]
                /\ IF DedupHit(found.err)
                     THEN Done(w, found.book, EmptyPath, ErrBookAlreadyExists, <<>>)
                     ELSE Goto(w, "sb_extract", <<>>)
  /\ UNCHANGED <<catalog, blobs, nextID>>

\* lines 45-55: metadata extraction, identifier and storage path
StoreBook_Extract(w) ==
  /\ pc[w] = "sb_extract"
  /\ \/ /\ loc' = [loc EXCEPT ![w].err = ErrIO]
        /\ Done(w, EmptyBook, EmptyPath,
                Errorf("BookShelf - StoreBook - exractMetadata", ErrIO), <<>>)
        /\ UNCHANGED nextID
     \/ \E m \in Metas :
          IF UnknownFormat(m)
            THEN /\ loc' = [loc EXCEPT ![w].m = m, ![w].err = NilErr]
                 /\ Done(w, EmptyBook, EmptyPath,
                         ErrorsNew("BookShelf - StoreBook - unknown file format"), <<>>)
                 /\ UNCHANGED nextID
            ELSE \E now \in Times :
                   /\ loc' = [loc EXCEPT ![w].m = m, ![w].err = NilErr,
                                         ![w].bookID = nextID,
                                         ![w].createDate = now,
                                         ![w].storagepath = StoragePath(now, nextID, m.Format)]
                   /\ nextID' = nextID + 1
                   /\ Goto(w, "sb_write", <<>>)
  /\ UNCHANGED <<catalog, blobs, started>>

\* lines 57-60: the primary blob
StoreBook_Write(w) ==
  /\ pc[w] = "sb_write"
  /\ \E ok \in BOOLEAN :
       LET err == StorageWrite(loc[w].storagepath, ok)
           calls == <<Call("Write", loc[w].storagepath, ok)>>
       IN  /\ blobs' = IF ok THEN blobs \cup {loc[w].storagepath} ELSE blobs
           /\ loc' = [loc EXCEPT ![w].err = err]
           /\ IF WriteFailed(err)
                THEN Done(w, EmptyBook, EmptyPath,
                          Errorf("BookShelf - StoreBook - s.storage.Write", err), calls)
                ELSE Goto(w, "sb_cover", calls)
  /\ UNCHANGED <<catalog, nextID, started>>

\* writeCover returning the cover path along with the error of a failed write
writeCover_PathOnFailure(cover, bookID, fault) ==
  IF Len(cover) = 0
    THEN [path |-> EmptyPath, err |-> NilErr, wrote |-> {}, calls |-> <<>>]
  ELSE IF fault \in {"CreateTemp", "TempWrite"}
    THEN [path |-> EmptyPath, wrote |-> {}, calls |-> <<>>, err |-> ErrIO]
  ELSE IF fault = "StorageWrite"
    THEN [path |-> CoverKey(bookID), wrote |-> {},
          calls |-> <<[op |-> "Write", key |-> CoverKey(bookID), ok |-> FALSE]>>,
          err |-> ErrBackend]
  ELSE [path |-> CoverKey(bookID), err |-> NilErr, wrote |-> {CoverKey(bookID)},
        calls |-> <<[op |-> "Write", key |-> CoverKey(bookID), ok |-> TRUE]>>]

\* writeCover (lines 217-242): the cover path and error returned, the key
\* written and the Storage Port calls made; fault names the step that fails.
CoverFaults == {"none", "CreateTemp", "TempWrite", "StorageWrite"}
writeCover(cover, bookID, fault) ==
  LET coverpath == CoverKey(bookID) IN
  IF Len(cover) = 0
    THEN [path |-> EmptyPath, err |-> NilErr, wrote |-> {}, calls |-> <<>>]
  ELSE IF fault = "CreateTemp"
    THEN [path |-> EmptyPath, wrote |-> {}, calls |-> <<>>,
          err |-> Errorf("BookShelf - writeCover - os.CreateTemp", ErrIO)]
  ELSE IF fault = "TempWrite"
    THEN [path |-> EmptyPath, wrote |-> {}, calls |-> <<>>,
          err |-> Errorf("BookShelf - writeCover - coverTempFile.Write", ErrIO)]
  ELSE IF Failed(StorageWrite(coverpath, fault # "StorageWrite"))
    THEN [path |-> EmptyPath, wrote |-> {},
          calls |-> <<Call("Write", coverpath, FALSE)>>,
          err |-> Errorf("BookShelf - writeCover - s.storage.Write",
                         StorageWrite(coverpath, FALSE))]
  ELSE [path |-> coverpath, err |-> NilErr, wrote |-> {coverpath},
        calls |-> <<Call("Write", coverpath, TRUE)>>]

\* lines 63-66: the cover blob, best effort (the error is only logged)
StoreBook_writeCover(w) ==
  /\ pc[w] = "sb_cover"
  /\ \E fault \in CoverFaults :
       LET res == writeCover(loc[w].m.Cover, loc[w].bookID, fault) IN
         /\ blobs' = blobs \cup res.wrote
         /\ loc' = [loc EXCEPT ![w].coverPath = res.path, ![w].err = res.err]
         /\ Goto(w, "sb_store", res.calls)
  /\ UNCHANGED <<catalog, nextID, started>>

\* lines 68-81: the record handed to the catalog
NewBook(l) ==
  [ID |-> l.bookID, Title |-> l.m.Title, Author |-> l.m.Author,
   Publisher |-> l.m.Publisher, Year |-> 0, CreatedAt |-> l.createDate,
   UpdatedAt |-> l.createDate, ISBN |-> l.m.ISBN, DocumentID |-> l.hash,
   FilePath |-> l.storagepath, Format |-> l.m.Format, CoverPath |-> l.coverPath]

\* lines 84-91: catalog persistence
StoreBook_Store(w) ==
  /\ pc[w] = "sb_store"
  /\ \E dbOk \in BOOLEAN :
       LET book == NewBook(loc[w])
           res == Store(book, dbOk)
           calls == <<Call("Store", EmptyPath, res.err = NilErr)>>
       IN  /\ catalog' = res.catalog
           /\ loc' = [loc EXCEPT ![w].err = res.err]
           /\ IF Failed(res.err)
                THEN Done(w, EmptyBook, EmptyPath,
                          Errorf("BookShelf - StoreBook - s.repo.Store", res.err), calls)
                ELSE Done(w, book, EmptyPath, NilErr, calls)
  /\ UNCHANGED <<blobs, nextID, started>>

\* ------------------------------------------------------------- UpdateBookMetadata
\* a merge that always takes the patch's value
MergeString_Always(patch, stored) == patch

\* an ISBN merged like the other fields: replaced only by a non-empty value
MergeISBN_Sparse(patch, stored) == IF patch # "" THEN patch ELSE stored

\* lines 162-170: title, author, publisher are replaced by a non-empty value
MergeString(patch, stored) == IF patch # "" THEN patch ELSE stored
\* a year that is always taken from the patch
MergeYear_Always(patch, stored) == patch

\* lines 171-173: the year is replaced by a non-zero value
MergeYear(patch, stored) == IF patch # 0 THEN patch ELSE stored
\* lines 176-178: the ISBN
MergeISBN(patch, stored) ==
  IF patch # "" \/ (patch = "" /\ stored # "") THEN patch ELSE stored

\* lines 159-178: updatedBook
Merge(book, metadata) ==
  [book EXCEPT !.Title = MergeString(metadata.Title, book.Title),
               !.Author = MergeString(metadata.Author, book.Author),
               !.Publisher = MergeString(metadata.Publisher, book.Publisher),
               !.Year = MergeYear(metadata.Year, book.Year),
               !.ISBN = MergeISBN(metadata.ISBN, book.ISBN)]

\* lines 153-178: fetch the record, merge the patch into a copy
UpdateBookMetadata_GetById(w) ==
  /\ Accept(w)
  /\ \E bookID \in IDs, metadata \in Patches, dbOk \in BOOLEAN :
       LET got == GetById(bookID, dbOk)
           l == [IdleLoc EXCEPT !.op = "UpdateBookMetadata", !.bookID = bookID,
                                !.metadata = metadata, !.err = got.err]
       IN  IF Failed(got.err)
             THEN /\ loc' = [loc EXCEPT ![w] = l]
                  /\ Done(w, EmptyBook, EmptyPath,
                          Errorf("BookShelf - UpdateBookMetadata - s.repo.Get", got.err), <<>>)
             ELSE /\ loc' = [loc EXCEPT ![w] =
                       [l EXCEPT !.book = got.book,
                                 !.updatedBook = Merge(got.book, metadata)]]
                  /\ Goto(w, "ub_update", <<>>)
  /\ UNCHANGED <<catalog, blobs, nextID>>

\* lines 180-187: refresh the update time, persist
UpdateBookMetadata_Update(w) ==
  /\ pc[w] = "ub_update"
  /\ \E now \in Times, dbOk \in BOOLEAN :
       LET updatedBook == [loc[w].updatedBook EXCEPT !.UpdatedAt = now]
           res == Update(updatedBook, dbOk)
       IN  /\ catalog' = res.catalog
           /\ loc' = [loc EXCEPT ![w].updatedBook = updatedBook, ![w].err = res.err]
           /\ IF Failed(res.err)
                THEN Done(w, EmptyBook, EmptyPath,
                          Errorf("BookShelf - UpdateBookMetadata - s.repo.Update", res.err), <<>>)
                ELSE Done(w, updatedBook, EmptyPath, NilErr, <<>>)
  /\ UNCHANGED <<blobs, nextID, started>>

\* ------------------------------------------------------------- ViewCover
\* ViewCover without the empty-path check
NoCover_Unchecked(book) == FALSE

\* line 207: the record has no cover
NoCover(book) == book.CoverPath = EmptyPath

\* lines 203-209: fetch the record, give up when it has no cover
ViewCover_GetById(w) ==
  /\ Accept(w)
  /\ \E bookID \in IDs, dbOk \in BOOLEAN :
       LET got == GetById(bookID, dbOk)
           l == [IdleLoc EXCEPT !.op = "ViewCover", !.bookID = bookID,
                                !.book = got.book, !.err = got.err]
       IN  /\ loc' = [loc EXCEPT ![w] = l]
           /\ IF Failed(got.err)
                THEN Done(w, EmptyBook, EmptyPath,
                          ErrorfS("BookShelf - ViewCover - s.repo.Get", got.err), <<>>)
                ELSE IF NoCover(got.book)
                  THEN Done(w, EmptyBook, EmptyPath,
                            ErrorsNew("BookShelf - ViewCover - no cover"), <<>>)
                  ELSE Goto(w, "vc_read", <<>>)
  /\ UNCHANGED <<catalog, blobs, nextID>>

\* lines 210-214: open the cover blob
ViewCover_Read(w) ==
  /\ pc[w] = "vc_read"
  /\ \E ok \in BOOLEAN :
       LET key == loc[w].book.CoverPath
           err == StorageRead(key, ok)
           calls == <<Call("Read", key, err = NilErr)>>
       IN  /\ loc' = [loc EXCEPT ![w].err = err]
           /\ IF Failed(err)
                THEN Done(w, EmptyBook, EmptyPath,
                          ErrorfS("BookShelf - ViewCover - s.storage.Read", err), calls)
                ELSE Done(w, EmptyBook, key, NilErr, calls)
  /\ UNCHANGED <<catalog, blobs, nextID, started>>

\* ------------------------------------------------------------- catalog calls
\* A caller of the catalog store: the first free goroutine.
Caller(w) == pc[w] = "idle" /\ \A v \in Workers : v < w => Running(v)

\* The arguments callers pass: sort columns and directions in and out of the
\* accepted ones, page numbers and sizes around their limits, a page number
\* whose offset exceeds the int range, queries with and without % and _.
SortBys == SortColumns \cup {"", "title; DROP TABLE library_book"}
SortOrderArgs == {"asc", "desc", "ASC", ""}
OverflowPage == 2^(IntBits - 2) + 1
Pages == {-1, 0, 1, 2, OverflowPage}
PerPages == {0, 1, 2, DefaultPerPage, MaxPerPage, MaxPerPage + 1}
Queries == {"", "a1", "2", "_", "%"}

\* repo.List(ctx, sortBy, sortOrder, page, perPage)
Repo_List(w) ==
  /\ Caller(w)
  /\ \E sortBy \in SortBys, sortOrder \in SortOrderArgs, page \in Pages,
        perPage \in PerPages, dbOk \in BOOLEAN :
       \E res \in List(sortBy, sortOrder, page, perPage, dbOk) :
         /\ loc' = [loc EXCEPT ![w] =
              [IdleLoc EXCEPT !.op = "List",
                 !.args = [query |-> "", sortBy |-> sortBy, sortOrder |-> sortOrder,
                           page |-> page, perPage |-> perPage],
                 !.sql = Clauses(sortBy, sortOrder, page, perPage),
                 !.books = res.books, !.err = res.err]]
         /\ Done(w, EmptyBook, EmptyPath, res.err, <<>>)
  /\ UNCHANGED <<catalog, blobs, nextID, started>>

\* repo.Search(ctx, query, sortBy, sortOrder, page, perPage)
Repo_Search(w) ==
  /\ Caller(w)
  /\ \E query \in Queries, sortBy \in SortBys, sortOrder \in SortOrderArgs,
        page \in Pages, perPage \in PerPages, dbOk \in BOOLEAN :
       \E res \in Search(query, sortBy, sortOrder, page, perPage, dbOk) :
         /\ loc' = [loc EXCEPT ![w] =
              [IdleLoc EXCEPT !.op = "Search",
                 !.args = [query |-> query, sortBy |-> sortBy, sortOrder |-> sortOrder,
                           page |-> page, perPage |-> perPage],
                 !.sql = Clauses(sortBy, sortOrder, page, perPage),
                 !.books = res.books, !.err = res.err]]
         /\ Done(w, EmptyBook, EmptyPath, res.err, <<>>)
  /\ UNCHANGED <<catalog, blobs, nextID, started>>

\* repo.Count(ctx)
Repo_Count(w) ==
  /\ Caller(w)
  /\ \E dbOk \in BOOLEAN :
       LET res == Count(dbOk) IN
         /\ loc' = [loc EXCEPT ![w] =
              [IdleLoc EXCEPT !.op = "Count", !.count = res.count, !.err = res.err]]
         /\ Done(w, EmptyBook, EmptyPath, res.err, <<>>)
  /\ UNCHANGED <<catalog, blobs, nextID, started>>

\* repo.CountSearch(ctx, query)
Repo_CountSearch(w) ==
  /\ Caller(w)
  /\ \E query \in Queries, dbOk \in BOOLEAN :
       LET res == CountSearch(query, dbOk) IN
         /\ loc' = [loc EXCEPT ![w] =
              [IdleLoc EXCEPT !.op = "CountSearch", !.args = [NoArgs EXCEPT !.query = query],
                              !.count = res.count, !.err = res.err]]
         /\ Done(w, EmptyBook, EmptyPath, res.err, <<>>)
  /\ UNCHANGED <<catalog, blobs, nextID, started>>

\* The records callers hand to Update: a stored or an unknown record, as it
\* is or with another title.
RepoRow(i) ==
  [ID |-> i,
   Title |-> IF i % 2 = 1 THEN "T1" ELSE "T2",
   Author |-> IF i % 3 = 0 THEN "A2" ELSE "A1",
   Publisher |-> "P1",
   Year |-> IF i % 2 = 1 THEN 0 ELSE 1999,
   CreatedAt |-> ((i - 1) % MaxTime) + 1,
   UpdatedAt |-> MaxTime,
   ISBN |-> IF i % 2 = 1 THEN "I1" ELSE "",
   DocumentID |-> i,
   FilePath |-> StoragePath(((i - 1) % MaxTime) + 1, i, "epub"),
   Format |-> "",
   CoverPath |-> IF i % 2 = 1 THEN CoverKey(i) ELSE EmptyPath]
RepoRows == {RepoRow(i) : i \in 1..MaxRows}
UpdateArgs == RepoRows \cup {[r EXCEPT !.Title = "T2"] : r \in RepoRows}

\* repo.Update(ctx, book)
Repo_Update(w) ==
  /\ Caller(w)
  /\ \E book \in UpdateArgs, dbOk \in BOOLEAN :
       LET res == Update(book, dbOk) IN
         /\ catalog' = res.catalog
         /\ loc' = [loc EXCEPT ![w] =
              [IdleLoc EXCEPT !.op = "Update", !.bookID = book.ID,
                              !.updatedBook = book, !.err = res.err]]
         /\ Done(w, EmptyBook, EmptyPath, res.err, <<>>)
  /\ UNCHANGED <<blobs, nextID, started>>

\* The handler has returned: its goroutine ends, its locals are gone.
Return(w) ==
  /\ pc[w] = "done"
  /\ pc' = [pc EXCEPT ![w] = "idle"]
  /\ loc' = [loc EXCEPT ![w] = IdleLoc]
  /\ ret' = [ret EXCEPT ![w] = NoRet]
  /\ io' = [io EXCEPT ![w] = <<>>]
  /\ UNCHANGED <<catalog, blobs, nextID, started>>

\* ------------------------------------------------------------- specifications
\* A handler that has returned hands over its result before any other
\* goroutine is scheduled (the return touches nothing shared).
Scheduled(w) == \A v \in Workers : pc[v] = "done" => v = w

\* Requests are served concurrently, their backend calls interleave.
Next ==
  \E w \in Workers :
    \/ Scheduled(w) /\ StoreBook_GetByFileHash(w)
    \/ Scheduled(w) /\ StoreBook_Extract(w)
    \/ Scheduled(w) /\ StoreBook_Write(w)
    \/ Scheduled(w) /\ StoreBook_writeCover(w)
    \/ Scheduled(w) /\ StoreBook_Store(w)
    \/ Scheduled(w) /\ ViewCover_GetById(w)
    \/ Scheduled(w) /\ ViewCover_Read(w)
    \/ Return(w)
Spec == Init /\ [][Next]_vars

\* Requests are served one after another: no two calls overlap.
Alone(w) == \A v \in Workers \ {w} : ~Running(v)
NextSeq ==
  \E w \in Workers :
    \/ Alone(w) /\ StoreBook_GetByFileHash(w)
    \/ Alone(w) /\ StoreBook_Extract(w)
    \/ Alone(w) /\ StoreBook_Write(w)
    \/ Alone(w) /\ StoreBook_writeCover(w)
    \/ Alone(w) /\ StoreBook_Store(w)
    \/ Alone(w) /\ UpdateBookMetadata_GetById(w)
    \/ Alone(w) /\ UpdateBookMetadata_Update(w)
    \/ Alone(w) /\ ViewCover_GetById(w)
    \/ Alone(w) /\ ViewCover_Read(w)
    \/ Alone(w) /\ Return(w)
SpecSeq == Init /\ [][NextSeq]_vars

\* Updates of a book an earlier upload has stored, served concurrently.
StoredBook ==
  Row(NewBook([IdleLoc EXCEPT !.hash = 1, !.m = Meta("I1", <<255>>, "epub"),
                              !.bookID = 1, !.createDate = 1,
                              !.storagepath = StoragePath(1, 1, "epub"),
                              !.coverPath = CoverKey(1)]))
InitUpd ==
  /\ catalog = {StoredBook}
  /\ blobs = {StoredBook.FilePath, StoredBook.CoverPath}
  /\ nextID = 2
  /\ started = 0
  /\ pc = [w \in Workers |-> "idle"]
  /\ loc = [w \in Workers |-> IdleLoc]
  /\ ret = [w \in Workers |-> NoRet]
  /\ io = [w \in Workers |-> <<>>]
NextUpd ==
  \E w \in Workers :
    \/ UpdateBookMetadata_GetById(w)
    \/ UpdateBookMetadata_Update(w)
    \/ Return(w)
SpecUpd == InitUpd /\ [][NextUpd]_vars

\* Calls served one after another in a library that holds a stored book.
SpecSeqUpd == InitUpd /\ [][NextSeq]_vars

\* The catalog store on its own: callers query and update a catalog that
\* earlier uploads and updates have filled.
InitRepo ==
  /\ catalog \in SUBSET RepoRows
  /\ blobs = {r.FilePath : r \in catalog}
               \cup {r.CoverPath : r \in {x \in catalog : x.CoverPath # EmptyPath}}
  /\ nextID = MaxRows + 1
  /\ started = 0
  /\ pc = [w \in Workers |-> "idle"]
  /\ loc = [w \in Workers |-> IdleLoc]
  /\ ret = [w \in Workers |-> NoRet]
  /\ io = [w \in Workers |-> <<>>]
NextRepo ==
  \E w \in Workers :
    \/ Alone(w) /\ Repo_List(w)
    \/ Alone(w) /\ Repo_Search(w)
    \/ Alone(w) /\ Repo_Count(w)
    \/ Alone(w) /\ Repo_CountSearch(w)
    \/ Alone(w) /\ Repo_Update(w)
    \/ Alone(w) /\ Return(w)
SpecRepo == InitRepo /\ [][NextRepo]_vars

\* ------------------------------------------------------------- properties
\* The backend calls handler w has issued.
Calls(w) == {io[w][i] : i \in 1..Len(io[w])}
Served(w, op) == pc[w] = "done" /\ loc[w].op = op
UnknownFormatErr == ErrorsNew("BookShelf - StoreBook - unknown file format")
NoCoverErr == ErrorsNew("BookShelf - ViewCover - no cover")
\* The catalog row with identifier id.
RowOf(id) == CHOOSE r \in catalog : r.ID = id

\* C1 (calls one after another): while a row with fingerprint h exists that an
\* earlier call created, a StoreBook call for fingerprint h issues no blob
\* write and no Store, adds no row, and returns AlreadyExists with that row
\* (or, at worst, the failure of its dedup lookup).
C1_DuplicateUploadReturnsOriginal ==
  \A w \in Workers : \A r \in catalog :
    (loc[w].op = "StoreBook" /\ loc[w].hash = r.DocumentID /\ loc[w].bookID # r.ID)
      => /\ \A c \in Calls(w) : c.op \notin {"Write", "Store"}
         /\ \A r2 \in catalog : r2.ID # loc[w].bookID
         /\ pc[w] = "done" =>
              \/ ret[w].err = ErrBookAlreadyExists /\ ret[w].book.ID = r.ID
              \/ ErrorsIs(ret[w].err, ErrBackend)

\* C2: no two catalog rows share a fingerprint or an identifier, and a Store
\* of a book whose fingerprint or identifier is already in the catalog
\* inserts nothing and fails with AlreadyExists (with the engine's failure
\* when the engine could not be reached).
C2_FingerprintAndIdUnique ==
  /\ \A r1, r2 \in catalog :
       (r1.DocumentID = r2.DocumentID \/ r1.ID = r2.ID) => r1 = r2
  /\ \A w \in Workers :
       (/\ Served(w, "StoreBook")
        /\ \E c \in Calls(w) : c.op = "Store"
        /\ \E r \in catalog : r.DocumentID = loc[w].hash /\ r.ID # loc[w].bookID)
         => /\ \A r \in catalog : r.ID # loc[w].bookID
            /\ ret[w].book = EmptyBook
            /\ \/ ErrorsIs(ret[w].err, ErrBookAlreadyExists)
               \/ ErrorsIs(ret[w].err, ErrBackend)
            /\ ErrorsIs(loc[w].err, ErrBackend) <=> ErrorsIs(ret[w].err, ErrBackend)

\* C2 witness: two calls with one fingerprint both missed the lookup; one
\* inserted the row, the other's Store was refused with AlreadyExists.
C2_RaceRefused ==
  \E w \in Workers :
    /\ Served(w, "StoreBook")
    /\ \E c \in Calls(w) : c.op = "Store"
    /\ ErrorsIs(ret[w].err, ErrBookAlreadyExists)
    /\ \E r \in catalog : r.DocumentID = loc[w].hash /\ r.ID # loc[w].bookID

\* C3: every catalog row's storage path is non-empty and names a written
\* blob, and so does every non-empty cover path.
C3_RowsReferenceWrittenBlobs ==
  \A r \in catalog :
    /\ r.FilePath # EmptyPath
    /\ r.FilePath \in blobs
    /\ r.CoverPath # EmptyPath => r.CoverPath \in blobs

\* C3 witness: a row with a cover beside a blob no row references, left by
\* a call whose Store failed.
C3_RowAndOrphan ==
  /\ \E r \in catalog : r.CoverPath # EmptyPath
  /\ \E b \in blobs : \A r \in catalog : b # r.FilePath /\ b # r.CoverPath

\* C4: a StoreBook whose dedup lookup failed at the backend (not with "no
\* rows") returns and does not go on to extraction.
C4_LookupFailureReturned ==
  \A w \in Workers :
    ~(pc[w] = "sb_extract" /\ ErrorsIs(loc[w].err, ErrBackend))

\* The update w has served succeeded.
Updated(w) == Served(w, "UpdateBookMetadata") /\ ret[w].err = NilErr

\* C5 as claimed: an all-empty patch leaves title, author, publisher, year
\* and ISBN of the record as they were.
C5_EmptyPatchChangesOnlyUpdatedAt ==
  \A w \in Workers :
    (Updated(w) /\ loc[w].metadata = NoPatch)
      => LET r == RowOf(loc[w].bookID)
             old == loc[w].book
         IN  /\ r.Title = old.Title /\ r.Author = old.Author
             /\ r.Publisher = old.Publisher /\ r.Year = old.Year
             /\ r.ISBN = old.ISBN

\* C5 as amended: an all-empty patch leaves title, author, publisher and
\* year of the record as they were, and leaves its ISBN empty: an empty ISBN
\* is kept, a non-empty one is cleared.
C5_EmptyPatchKeepsAllButISBN ==
  \A w \in Workers :
    (Updated(w) /\ loc[w].metadata = NoPatch)
      => LET r == RowOf(loc[w].bookID)
             old == loc[w].book
         IN  /\ r.Title = old.Title /\ r.Author = old.Author
             /\ r.Publisher = old.Publisher /\ r.Year = old.Year
             /\ r.ISBN = ""
             /\ old.ISBN = "" => r.ISBN = old.ISBN
             /\ ret[w].book = [r EXCEPT !.Format = ret[w].book.Format]

\* C5 witness: an all-empty patch was applied to a record with an ISBN.
C5_EmptyPatchOnIsbnRecord ==
  \E w \in Workers :
    Updated(w) /\ loc[w].metadata = NoPatch /\ loc[w].book.ISBN # ""

\* C6: an empty patch ISBN clears a non-empty stored ISBN and keeps an empty
\* one; a non-empty patch ISBN replaces the stored ISBN.
C6_IsbnPolicy ==
  \A w \in Workers :
    Updated(w)
      => LET r == RowOf(loc[w].bookID)
             patch == loc[w].metadata.ISBN
             stored == loc[w].book.ISBN
         IN  /\ (patch = "" /\ stored # "") => r.ISBN = ""
             /\ (patch = "" /\ stored = "") => r.ISBN = ""
             /\ patch # "" => r.ISBN = patch

\* C6 witness: an empty patch ISBN was applied to a record with an ISBN,
\* which is now cleared.
C6_IsbnCleared ==
  \E w \in Workers :
    /\ Updated(w) /\ loc[w].metadata.ISBN = "" /\ loc[w].book.ISBN # ""
    /\ RowOf(loc[w].bookID).ISBN = ""

\* The extractor has answered handler w, with a format it left empty.
EmptyFormat(w) ==
  loc[w].op = "StoreBook" /\ loc[w].m \in Metas /\ loc[w].m.Format = ""

\* C7: when the extractor returns an empty format, StoreBook has returned
\* UnknownFormat and an empty record, having issued no blob write (primary or
\* cover) and no Store, and having taken no identifier.
C7_UnknownFormatWritesNothing ==
  \A w \in Workers :
    EmptyFormat(w)
      => /\ pc[w] = "done"
         /\ ret[w] = [book |-> EmptyBook, file |-> EmptyPath, err |-> UnknownFormatErr]
         /\ io[w] = <<>>
         /\ loc[w].bookID = 0 /\ loc[w].storagepath = EmptyPath

\* C7 witness: a file of unknown format was refused while the library held
\* a book.
C7_UnknownFormatRefused ==
  \E w \in Workers : EmptyFormat(w) /\ pc[w] = "done" /\ catalog # {}

\* The primary blob write of handler w failed.
PrimaryWriteFailed(w) ==
  loc[w].op = "StoreBook" /\ Call("Write", loc[w].storagepath, FALSE) \in Calls(w)

\* C8: when the primary blob write fails, StoreBook has returned an error
\* and an empty record; the failed write is the only backend call it issued
\* (no cover write, no Store) and no row carries its identifier.
C8_PrimaryWriteFailureIsFatal ==
  \A w \in Workers :
    PrimaryWriteFailed(w)
      => /\ pc[w] = "done"
         /\ ret[w].err # NilErr /\ ret[w].book = EmptyBook
         /\ io[w] = <<Call("Write", loc[w].storagepath, FALSE)>>
         /\ loc[w].storagepath \notin blobs
         /\ \A r \in catalog : r.ID # loc[w].bookID

\* C8 witness: a primary write failed.
C8_PrimaryWriteHasFailed == \E w \in Workers : PrimaryWriteFailed(w)

\* The cover writes handler w has issued.
CoverWrites(w) == {c \in Calls(w) : c.op = "Write" /\ c.key.kind = "covers"}

\* C9: past the cover step, the cover path is covers/<id>.jpg exactly when
\* the cover write succeeded and empty otherwise; with empty cover bytes no
\* cover write is issued; a failed cover step does not end the call: it ends
\* only with the result of Store, and when Store succeeded it returns the
\* inserted row with that cover path.
C9_CoverIsBestEffort ==
  \A w \in Workers :
    (loc[w].op = "StoreBook" /\ \E c \in Calls(w) : c.op = "Write" /\ c.ok)
      => LET cover == loc[w].m.Cover
             key == CoverKey(loc[w].bookID)
         IN  /\ Len(cover) = 0 => CoverWrites(w) = {}
             /\ CoverWrites(w) \subseteq {Call("Write", key, TRUE), Call("Write", key, FALSE)}
             /\ pc[w] \in {"sb_store", "done"} =>
                  loc[w].coverPath =
                    IF Call("Write", key, TRUE) \in Calls(w) THEN key ELSE EmptyPath
             /\ pc[w] = "done" => \E c \in Calls(w) : c.op = "Store"
             /\ (pc[w] = "done" /\ Call("Store", EmptyPath, TRUE) \in Calls(w)) =>
                  /\ ret[w].err = NilErr
                  /\ ret[w].book.CoverPath = loc[w].coverPath
                  /\ Row(ret[w].book) \in catalog
                  /\ RowOf(loc[w].bookID).CoverPath = loc[w].coverPath

\* C9 witness: a book with cover bytes was cataloged without a cover after
\* its cover write failed.
C9_CatalogedWithoutCover ==
  \E w \in Workers :
    /\ Served(w, "StoreBook") /\ ret[w].err = NilErr
    /\ Len(loc[w].m.Cover) > 0
    /\ Call("Write", CoverKey(loc[w].bookID), FALSE) \in Calls(w)
    /\ RowOf(loc[w].bookID).CoverPath = EmptyPath

\* C10: ViewCover of a record with an empty cover path has returned NoCover
\* and issued no Storage Port call; every read ViewCover issues follows a
\* successful GetById and its key is the non-empty cover path of the row.
C10_ViewCoverReadsOnlyTheCoverPath ==
  \A w \in Workers :
    loc[w].op = "ViewCover"
      => /\ (loc[w].book \in catalog /\ loc[w].book.CoverPath = EmptyPath)
              => pc[w] = "done" /\ ret[w].err = NoCoverErr /\ ret[w].file = EmptyPath
         /\ \A c \in Calls(w) :
              /\ c.op = "Read"
              /\ loc[w].book \in catalog
              /\ loc[w].book.ID = loc[w].bookID
              /\ c.key = loc[w].book.CoverPath
              /\ c.key # EmptyPath
         /\ loc[w].book.CoverPath = EmptyPath => io[w] = <<>>

\* C10 witness: the cover of a cataloged book without a cover was asked for.
C10_NoCoverAnswered ==
  \E w \in Workers :
    /\ Served(w, "ViewCover") /\ loc[w].book \in catalog
    /\ loc[w].book.CoverPath = EmptyPath
    /\ ret[w].err = NoCoverErr

\* ------------------------------------------------------------- catalog query properties
Queried(w) == pc[w] = "done" /\ loc[w].op \in {"List", "Search"}
\* The engine answered the call of w.
Answered(w) == ~ErrorsIs(ret[w].err, ErrBackend)
\* The rows the query of w selects.
Selected(w) ==
  IF loc[w].op = "List" THEN catalog
  ELSE {r \in catalog : Where(r, SearchPattern(loc[w].args.query))}
\* The effective page and page size of the claim, as numbers.
EffPage(page) == IF page <= 0 THEN 1 ELSE page
EffPerPage(perPage) == IF perPage <= 0 \/ perPage > 100 THEN 25 ELSE perPage
\* Positions first .. first + n - 1 (counted from 0) of the sequence s.
Positions(s, first, n) ==
  [i \in 1..(IF Len(s) - first < 0 THEN 0
             ELSE IF Len(s) - first < n THEN Len(s) - first ELSE n) |-> s[first + i]]

\* C11: List and Search return, for every page and perPage, the rows at
\* positions (p-1)*n .. (p-1)*n + n - 1 of the ordered selected rows, with p
\* and n the effective page and page size.
C11_EffectivePagination ==
  \A w \in Workers :
    (Queried(w) /\ Answered(w))
      => LET p == EffPage(loc[w].args.page)
             n == EffPerPage(loc[w].args.perPage)
         IN  /\ ret[w].err = NilErr
             /\ Len(loc[w].books) <= n
             /\ \E s \in OrderBy(Selected(w), loc[w].sql.orderBy, loc[w].sql.dir) :
                  loc[w].books = Positions(s, (p - 1) * n, n)

\* C12: the ordering column of List and Search is one of the seven accepted
\* columns and the direction is asc or desc; any other sortBy is replaced by
\* created_at, any other sortOrder by desc; the rows come in that order, and
\* the call fails only when the engine fails or rejects the offset, never
\* for its sort arguments.
C12_SortWhitelist ==
  \A w \in Workers :
    Queried(w)
      => LET a == loc[w].args
             q == loc[w].sql
             b == loc[w].books
         IN  /\ q.orderBy \in {"title", "author", "publisher", "year",
                               "created_at", "updated_at", "isbn"}
             /\ q.dir \in {"asc", "desc"}
             /\ q.orderBy = IF a.sortBy \in SortColumns THEN a.sortBy ELSE "created_at"
             /\ q.dir = IF a.sortOrder \in {"asc", "desc"} THEN a.sortOrder ELSE "desc"
             /\ \A i, j \in 1..Len(b) :
                  i < j => IF q.dir = "asc" THEN ColumnLeq(q.orderBy, b[i], b[j])
                                            ELSE ColumnLeq(q.orderBy, b[j], b[i])
             /\ ret[w].err # NilErr
                  => \/ ErrorsIs(ret[w].err, ErrBackend)
                     \/ ErrorsIs(ret[w].err, ErrNegativeOffset)

\* C12 witness: a Search sorted by a column name outside the accepted ones
\* and an unknown direction returned rows.
C12_UnknownSortServed ==
  \E w \in Workers :
    /\ Served(w, "Search") /\ ret[w].err = NilErr /\ Len(loc[w].books) > 1
    /\ loc[w].args.sortBy = "title; DROP TABLE library_book"
    /\ loc[w].args.sortOrder = "ASC"

\* C13: what Search returns for the empty query, List can return for the
\* same sort and pagination arguments, and the other way round;
\* CountSearch("") and Count() give the same number.
C13_EmptyQueryIsList ==
  \A w \in Workers :
    LET a == loc[w].args
        got == [books |-> loc[w].books, err |-> NilErr]
    IN  /\ (Served(w, "Search") /\ a.query = "" /\ Answered(w))
              => IF ret[w].err = NilErr
                   THEN got \in List(a.sortBy, a.sortOrder, a.page, a.perPage, TRUE)
                   ELSE \A l \in List(a.sortBy, a.sortOrder, a.page, a.perPage, TRUE) :
                          l.err # NilErr
        /\ (Served(w, "List") /\ Answered(w))
              => IF ret[w].err = NilErr
                   THEN got \in Search("", a.sortBy, a.sortOrder, a.page, a.perPage, TRUE)
                   ELSE \A l \in Search("", a.sortBy, a.sortOrder, a.page, a.perPage, TRUE) :
                          l.err # NilErr
        /\ (Served(w, "CountSearch") /\ a.query = "" /\ Answered(w))
              => loc[w].count = Count(TRUE).count /\ loc[w].count = Cardinality(catalog)
        /\ (Served(w, "Count") /\ Answered(w))
              => loc[w].count = CountSearch("", TRUE).count

\* C13 witness: Search with the empty query returned a row none of whose
\* fields is empty and a row with an empty field.
C13_EmptyQueryReturnedRows ==
  \E w \in Workers :
    /\ Served(w, "Search") /\ loc[w].args.query = "" /\ ret[w].err = NilErr
    /\ \E i, j \in 1..Len(loc[w].books) :
         loc[w].books[i].ISBN = "" /\ loc[w].books[j].ISBN # ""

\* The query occurs in the text as a literal substring, case disregarded.
ContainsFold(text, query) ==
  \E i \in 0..(Len(text) - Len(query)) :
    \A k \in 1..Len(query) : Lower(text[i + k]) = Lower(query[k])
LiteralMatch(r, query) ==
  \/ ContainsFold(Chars(r.Title), Chars(query))
  \/ ContainsFold(Chars(r.Author), Chars(query))
  \/ ContainsFold(Chars(r.Publisher), Chars(query))
  \/ ContainsFold(Chars(r.ISBN), Chars(query))

\* C14: Search returns only rows in which the query occurs literally (case
\* disregarded) in title, author, publisher or ISBN, and CountSearch counts
\* exactly those rows, also for queries that contain % or _.
C14_LiteralSubstringMatch ==
  \A w \in Workers :
    /\ (Served(w, "Search") /\ ret[w].err = NilErr)
          => \A i \in 1..Len(loc[w].books) :
               LiteralMatch(loc[w].books[i], loc[w].args.query)
    /\ (Served(w, "CountSearch") /\ ret[w].err = NilErr)
          => loc[w].count =
               Cardinality({r \in catalog : LiteralMatch(r, loc[w].args.query)})

NoRowsErr == ErrorsNew("BookDatabaseRepo - Update - no rows affected")

\* C15: an Update the engine answers returns "no rows affected" exactly when
\* no row has the book's ID, and then leaves the catalog as it was; with a
\* row of that ID it succeeds, also when it writes the stored values again.
C15_UpdateFailsIffAbsent ==
  [][\A w \in Workers :
       (pc[w] = "idle" /\ pc'[w] = "done" /\ loc'[w].op = "Update"
          /\ ~ErrorsIs(ret'[w].err, ErrBackend))
         => LET book == loc'[w].updatedBook
                present == \E r \in catalog : r.ID = book.ID
            IN  /\ ret'[w].err = NoRowsErr <=> ~present
                /\ ret'[w].err = NilErr <=> present
                /\ ~present => catalog' = catalog
                /\ book \in catalog => catalog' = catalog /\ ret'[w].err = NilErr
                /\ present => \E r \in catalog' :
                                /\ r.ID = book.ID /\ r.Title = book.Title
                                /\ Cardinality(catalog') = Cardinality(catalog)]_vars

\* C15 witness: an Update for an ID no row of a non-empty catalog has was
\* refused with "no rows affected".
C15_UnknownIdRefused ==
  \E w \in Workers :
    /\ Served(w, "Update") /\ ret[w].err = NoRowsErr /\ catalog # {}
    /\ \A r \in catalog : r.ID # loc[w].bookID

\* ------------------------------------------------------------- failure and race properties
\* The Store of handler w failed.
StoreFailed(w) ==
  Served(w, "StoreBook") /\ Call("Store", EmptyPath, FALSE) \in Calls(w)

\* C16: when the Store that ends StoreBook fails, the call returns an error
\* (the engine's failure or a wrapped AlreadyExists) and an empty record, no
\* row carries its identifier, and its primary blob and its cover blob, if
\* one was written, are in the Storage Port; no step ever removes a blob.
C16_FailedStoreLeavesBlobs ==
  /\ [](\A w \in Workers :
          StoreFailed(w)
            => /\ ret[w].err # NilErr
               /\ ErrorsIs(ret[w].err, ErrBackend) \/ ErrorsIs(ret[w].err, ErrBookAlreadyExists)
               /\ ret[w].book = EmptyBook
               /\ \A r \in catalog : r.ID # loc[w].bookID
               /\ loc[w].storagepath # EmptyPath /\ loc[w].storagepath \in blobs
               /\ Call("Write", CoverKey(loc[w].bookID), TRUE) \in Calls(w)
                    => CoverKey(loc[w].bookID) \in blobs)
  /\ [][blobs \subseteq blobs']_vars

\* C16 witness: a Store failed after the primary blob and the cover blob
\* were written; no row references either.
C16_OrphanedBlobs ==
  \E w \in Workers :
    /\ StoreFailed(w)
    /\ loc[w].storagepath \in blobs /\ CoverKey(loc[w].bookID) \in blobs
    /\ \A r \in catalog :
         r.FilePath # loc[w].storagepath /\ r.CoverPath # CoverKey(loc[w].bookID)

\* C17 (calls one after another, a book is stored): no step removes a row or changes a row's
\* ID, fingerprint, storage path, cover path or creation time; after a
\* successful UpdateBookMetadata the row's title, author and publisher are
\* the patch's where it is non-empty and the stored ones otherwise, and its
\* year is the patch's where it is non-zero and the stored one otherwise.
C17_FrameOfStoreAndUpdate ==
  /\ [][\A r \in catalog : \E n \in catalog' :
          /\ n.ID = r.ID /\ n.DocumentID = r.DocumentID
          /\ n.FilePath = r.FilePath /\ n.CoverPath = r.CoverPath
          /\ n.CreatedAt = r.CreatedAt]_vars
  /\ [](\A w \in Workers :
          Updated(w)
            => LET r == RowOf(loc[w].bookID)
                   old == loc[w].book
                   m == loc[w].metadata
               IN  /\ r.Title = IF m.Title # "" THEN m.Title ELSE old.Title
                   /\ r.Author = IF m.Author # "" THEN m.Author ELSE old.Author
                   /\ r.Publisher = IF m.Publisher # "" THEN m.Publisher ELSE old.Publisher
                   /\ r.Year = IF m.Year # 0 THEN m.Year ELSE old.Year
                   /\ r.ID = old.ID /\ r.DocumentID = old.DocumentID
                   /\ r.FilePath = old.FilePath /\ r.CoverPath = old.CoverPath
                   /\ r.CreatedAt = old.CreatedAt)

\* C17 witness: a patch with only a title was applied to a stored book.
C17_TitleOnlyPatchApplied ==
  \E w \in Workers :
    /\ Updated(w) /\ loc[w].metadata = [NoPatch EXCEPT !.Title = "T2"]
    /\ loc[w].book.Title = "T1"
    /\ RowOf(loc[w].bookID).Title = "T2" /\ RowOf(loc[w].bookID).Author = "A1"

\* The Store of handler w found its fingerprint in a row of another call.
LostRace(w) ==
  /\ Served(w, "StoreBook")
  /\ \E c \in Calls(w) : c.op = "Store"
  /\ \E r \in catalog : r.DocumentID = loc[w].hash /\ r.ID # loc[w].bookID

\* C18: two StoreBook calls with one fingerprint that are both past their
\* dedup lookup have distinct storage paths; the call whose Store finds the
\* other's row ends with an empty record and an error wrapping AlreadyExists
\* (or the engine's failure), the catalog holds the single row of the other
\* call, and the loser's blob is in storage under a path of its own that no
\* row references.
C18_RaceLeavesOneRowAndAnOrphan ==
  /\ \A w, v \in Workers :
       (/\ w # v /\ loc[w].op = "StoreBook" /\ loc[v].op = "StoreBook"
        /\ loc[w].hash = loc[v].hash
        /\ loc[w].storagepath # EmptyPath /\ loc[v].storagepath # EmptyPath)
         => loc[w].storagepath # loc[v].storagepath
  /\ \A w \in Workers :
       LostRace(w)
         => /\ ret[w].book = EmptyBook
            /\ ErrorsIs(ret[w].err, ErrBookAlreadyExists) \/ ErrorsIs(ret[w].err, ErrBackend)
            /\ ret[w].err # ErrBookAlreadyExists
            /\ Cardinality({r \in catalog : r.DocumentID = loc[w].hash}) = 1
            /\ loc[w].storagepath \in blobs
            /\ \A r \in catalog :
                 /\ r.FilePath # loc[w].storagepath
                 /\ r.ID # loc[w].bookID
                 /\ r.DocumentID = loc[w].hash => r.FilePath \in blobs

\* C18 witness: a call that took its identifier before the winner took its
\* own (so its lookup ran before the winner's insert) was refused by Store
\* with a wrapped AlreadyExists.
C18_LoserRefused ==
  \E w \in Workers :
    /\ LostRace(w)
    /\ ErrorsIs(ret[w].err, ErrBookAlreadyExists)
    /\ \E r \in catalog : r.DocumentID = loc[w].hash /\ r.ID > loc[w].bookID

\* The fields of title, author, publisher, year the patch m sets.
Sets(m) ==
  {f \in {"Title", "Author", "Publisher"} : m[f] # ""}
    \cup (IF m.Year # 0 THEN {"Year"} ELSE {})

\* C19: when two UpdateBookMetadata calls on one book that set disjoint
\* fields have both returned success, the row holds every value either of
\* them set.
C19_DisjointUpdatesBothKept ==
  \A w, v \in Workers :
    (/\ w # v /\ Updated(w) /\ Updated(v)
     /\ loc[w].bookID = loc[v].bookID
     /\ Sets(loc[w].metadata) # {} /\ Sets(loc[v].metadata) # {}
     /\ Sets(loc[w].metadata) \cap Sets(loc[v].metadata) = {})
      => \A f \in Sets(loc[w].metadata) : RowOf(loc[w].bookID)[f] = loc[w].metadata[f]

====
